---- MODULE Spec2Model ----
(***************************************************************************)
(* Kvazaar command line driver, src/encmain.c: main().                     *)
(*                                                                         *)
(* main() is modelled statement by statement.  pc is the position in       *)
(* main(); every action is one statement (or one straight-line group of    *)
(* statements) of main().  The collaborators main() calls (configuration,  *)
(* stdio, yuv_io, the encoder behind kvz_api) are the environment: their   *)
(* results are chosen nondeterministically among the results their         *)
(* interface allows.                                                       *)
(***************************************************************************)
EXTENDS Integers, Sequences, FiniteSets, TLC

\* ---------------------------------------------------------------- bounds
MaxInput == 3   \* most frames the input holds
MaxLimit == 2   \* largest configured frame-count limit (cfg->frames)
MaxSeek  == 1   \* largest configured seek offset (cfg->seek)
MaxDepth == 2   \* most frames the encoder buffers before it must emit one
MaxStall == 1   \* most drain calls that succeed without handing back output

\* ------------------------------------------------------------- constants
EXIT_SUCCESS == 0
EXIT_FAILURE == 1

VARIABLES
  pc,             \* position in main()
  cfg,            \* config_t *cfg and the fields main() reads
  input,          \* FILE *input
  output,         \* FILE *output
  recout,         \* FILE *recout
  output_stream,  \* bitstream_t output_stream: "indeterminate" or "initialized"
  enc,            \* kvz_encoder *enc
  retval,         \* int retval
  frames_started, \* uint32_t frames_started
  frames_done,    \* uint32_t frames_done
  img_in,         \* image_t *img_in of the current iteration
  img_out,        \* image_t *img_out of the current call
  in_left,        \* environment: whole frames left to read on the input
  enc_depth,      \* environment: the encoder's pipeline depth
  enc_pending,    \* environment: frames accepted by the encoder, output not yet handed back
  stalls,         \* environment: drain calls so far that handed back nothing
  closes,         \* history: fclose calls per underlying stream
  log,            \* history: the calls main() has made, in order
  failure,        \* history: the fatal failure of this run, "none" if none
  loop_exit,      \* history: why the submission loop ended
  avail0,         \* history: whole frames readable when the submission loop began
  report          \* history: the final statistics line, once printed

vars == <<pc, cfg, input, output, recout, output_stream, enc, retval,
          frames_started, frames_done, img_in, img_out,
          in_left, enc_depth, enc_pending, stalls, closes, log, failure,
          loop_exit, avail0, report>>

\* ---------------------------------------------------------------- helpers
Min(a, b) == IF a < b THEN a ELSE b
Max(a, b) == IF a > b THEN a ELSE b

Ev(op, arg) == [op |-> op, arg |-> arg]

\* how many times main() has made the call op(arg)
Count(op, arg) == Cardinality({i \in DOMAIN log : log[i] = Ev(op, arg)})

\* positions of the call op(arg) in the run
At(op, arg) == {i \in DOMAIN log : log[i] = Ev(op, arg)}

Streams == {"stdin", "stdout", "in_file", "out_file", "rec_file"}

NoCfg == [ptr |-> "NULL", input |-> "", output |-> "", debug |-> "NULL",
          frames |-> 0, seek |-> 0]

NoReport == [printed |-> FALSE, frames |-> 0, divisor |-> 0]

\* open_input_file(): "-" is stdin, anything else is fopen(filename, "rb")
open_input_file(filename, fopen_ok) ==
  IF filename = "-" THEN "stdin"
  ELSE IF fopen_ok THEN "in_file" ELSE "NULL"

\* open_output_file(): "-" is stdout, anything else is fopen(filename, "wb");
\* fresh is the FILE object a successful fopen returns
open_output_file(filename, fopen_ok, fresh) ==
  IF filename = "-" THEN "stdout"
  ELSE IF fopen_ok THEN fresh ELSE "NULL"

\* fclose(f) as teardown calls it: only on a non-null pointer.  closes counts
\* the calls per underlying stream; a second fclose of a standard stream is
\* counted and returns (the C library does not free stdin/stdout).
fclose(f) ==
  IF f # "NULL" THEN [closes EXCEPT ![f] = @ + 1] ELSE closes

\* ------------------------------------------------------------------- Init
Init ==
  /\ pc = "config"
  /\ cfg = NoCfg
  /\ input = "NULL"
  /\ output = "NULL"
  /\ recout = "NULL"
  /\ output_stream = "indeterminate"
  /\ enc = "NULL"
  /\ retval = EXIT_SUCCESS
  /\ frames_started = 0
  /\ frames_done = 0
  /\ img_in = "NULL"
  /\ img_out = "NULL"
  /\ in_left \in 0..MaxInput
  /\ enc_depth \in 0..MaxDepth
  /\ enc_pending = 0
  /\ stalls = 0
  /\ closes = [s \in Streams |-> 0]
  /\ log = <<>>
  /\ failure = "none"
  /\ loop_exit = "none"
  /\ avail0 = 0
  /\ report = NoReport

\* goto exit_failure, after the fatal failure `why`
Fatal(why) ==
  /\ pc' = "exit_failure"
  /\ failure' = why

\* ------------------------------------------------------------ acquisition
\* lines 113-121: config_alloc, config_init, config_read
Configure ==
  /\ pc = "config"
  /\ \/ \* config_alloc returns NULL
        /\ cfg' = NoCfg
        /\ log' = log
        /\ Fatal("config")
     \/ \* config_init or config_read fails on an allocated cfg
        /\ cfg' = [NoCfg EXCEPT !.ptr = "cfg"]
        /\ log' = Append(log, Ev("config_alloc", "cfg"))
        /\ Fatal("config")
     \/ \E i \in {"-", "in.yuv"}, o \in {"-", "out.hevc"},
           d \in {"NULL", "-", "rec.yuv"},
           n \in 0..MaxLimit, s \in 0..MaxSeek :
          /\ cfg' = [ptr |-> "cfg", input |-> i, output |-> o, debug |-> d,
                     frames |-> n, seek |-> s]
          /\ log' = Append(log, Ev("config_alloc", "cfg"))
          /\ pc' = "open_input"
          /\ UNCHANGED failure
  /\ UNCHANGED <<input, output, recout, output_stream, enc, retval,
                 frames_started, frames_done, img_in, img_out,
                 in_left, enc_depth, enc_pending, stalls, closes,
                 loop_exit, avail0, report>>

\* lines 123-127
OpenInput ==
  /\ pc = "open_input"
  /\ \E ok \in BOOLEAN :
       /\ input' = open_input_file(cfg.input, ok)
       /\ IF input' = "NULL"
            THEN /\ Fatal("input")
                 /\ log' = log
            ELSE /\ pc' = "open_output"
                 /\ log' = Append(log, Ev("open", "input"))
                 /\ UNCHANGED failure
  /\ UNCHANGED <<cfg, output, recout, output_stream, enc, retval,
                 frames_started, frames_done, img_in, img_out,
                 in_left, enc_depth, enc_pending, stalls, closes,
                 loop_exit, avail0, report>>

\* lines 129-133
OpenOutput ==
  /\ pc = "open_output"
  /\ \E ok \in BOOLEAN :
       /\ output' = open_output_file(cfg.output, ok, "out_file")
       /\ IF output' = "NULL"
            THEN /\ Fatal("output")
                 /\ log' = log
            ELSE /\ pc' = "open_debug"
                 /\ log' = Append(log, Ev("open", "output"))
                 /\ UNCHANGED failure
  /\ UNCHANGED <<cfg, input, recout, output_stream, enc, retval,
                 frames_started, frames_done, img_in, img_out,
                 in_left, enc_depth, enc_pending, stalls, closes,
                 loop_exit, avail0, report>>

\* lines 135-141
OpenDebug ==
  /\ pc = "open_debug"
  /\ IF cfg.debug # "NULL"
       THEN \E ok \in BOOLEAN :
              /\ recout' = open_output_file(cfg.debug, ok, "rec_file")
              /\ IF recout' = "NULL"
                   THEN /\ Fatal("debug")
                        /\ log' = log
                   ELSE /\ pc' = "bitstream_init"
                        /\ log' = Append(log, Ev("open", "recout"))
                        /\ UNCHANGED failure
       ELSE /\ pc' = "bitstream_init"
            /\ UNCHANGED <<recout, log, failure>>
  /\ UNCHANGED <<cfg, input, output, output_stream, enc, retval,
                 frames_started, frames_done, img_in, img_out,
                 in_left, enc_depth, enc_pending, stalls, closes,
                 loop_exit, avail0, report>>

\* lines 143-148: a failed bitstream_init leaves output_stream as declared
BitstreamInit ==
  /\ pc = "bitstream_init"
  /\ \E ok \in BOOLEAN :
       IF ok
         THEN /\ output_stream' = "initialized"
              /\ log' = Append(log, Ev("bitstream_init", "output_stream"))
              /\ pc' = "encoder_open"
              /\ UNCHANGED failure
         ELSE /\ UNCHANGED <<output_stream, log>>
              /\ Fatal("bitstream_init")
  /\ UNCHANGED <<cfg, input, output, recout, enc, retval,
                 frames_started, frames_done, img_in, img_out,
                 in_left, enc_depth, enc_pending, stalls, closes,
                 loop_exit, avail0, report>>

\* lines 150-154
EncoderOpen ==
  /\ pc = "encoder_open"
  /\ \E ok \in BOOLEAN :
       IF ok
         THEN /\ enc' = "enc"
              /\ log' = Append(log, Ev("encoder_open", "enc"))
              /\ pc' = "seek"
              /\ UNCHANGED failure
         ELSE /\ UNCHANGED <<enc, log>>
              /\ Fatal("encoder_open")
  /\ UNCHANGED <<cfg, input, output, recout, output_stream, retval,
                 frames_started, frames_done, img_in, img_out,
                 in_left, enc_depth, enc_pending, stalls, closes,
                 loop_exit, avail0, report>>

\* lines 163-166: yuv_io_seek skips cfg->seek whole frames
Seek ==
  /\ pc = "seek"
  /\ IF cfg.seek > 0
       THEN \E ok \in BOOLEAN :
              IF ok
                THEN /\ in_left' = Max(in_left - cfg.seek, 0)
                     /\ log' = Append(log, Ev("yuv_io_seek", "input"))
                     /\ pc' = "start_time"
                     /\ UNCHANGED failure
                ELSE /\ UNCHANGED <<in_left, log>>
                     /\ Fatal("seek")
       ELSE /\ pc' = "start_time"
            /\ UNCHANGED <<in_left, log, failure>>
  /\ UNCHANGED <<cfg, input, output, recout, output_stream, enc, retval,
                 frames_started, frames_done, img_in, img_out,
                 enc_depth, enc_pending, stalls, closes,
                 loop_exit, avail0, report>>


\* ------------------------------------------------------------ the encoder
\* What one encoder_encode call may answer, by the encoder's capability
\* contract: it hands back at most one output per call, never more outputs
\* than frames it accepted, holds back at most `depth` frames, and on a
\* drain call (no frame) reports 0 exactly when nothing is pending.
\*   ret: the call's return value; out: whether *img_out is set;
\*   pending: the frames it still holds afterwards.
encoder_encode(pending, depth, frame, may_stall) ==
  IF frame
    THEN {[ret |-> 1, out |-> o, pending |-> pending + 1 - (IF o THEN 1 ELSE 0)] :
            o \in {b \in BOOLEAN : pending + 1 > depth => b}}
         \cup
         {[ret |-> 0, out |-> o, pending |-> pending - (IF o THEN 1 ELSE 0)] :
            o \in {b \in BOOLEAN : b => pending > 0}}
    ELSE IF pending > 0
           THEN {[ret |-> 1, out |-> TRUE, pending |-> pending - 1]}
                \cup
                (IF may_stall
                   THEN {[ret |-> 1, out |-> FALSE, pending |-> pending]}
                   ELSE {})
           ELSE {[ret |-> 0, out |-> FALSE, pending |-> 0]}

\* -------------------------------------------------------- submission loop
\* lines 171-177
StartTime ==
  /\ pc = "start_time"
  /\ frames_started' = 0
  /\ frames_done' = 0
  /\ avail0' = in_left
  /\ log' = Append(log, Ev("get_time", "start"))
  /\ pc' = "loop_test"
  /\ UNCHANGED <<cfg, input, output, recout, output_stream, enc, retval,
                 img_in, img_out, in_left, enc_depth, enc_pending, stalls,
                 closes, failure, loop_exit, report>>

\* the loop condition with the limit compared off by one
LoopCondition_offbyone == cfg.frames = 0 \/ frames_started <= cfg.frames

\* line 180: the loop condition
LoopCondition == cfg.frames = 0 \/ frames_started < cfg.frames

LoopTest ==
  /\ pc = "loop_test"
  /\ IF LoopCondition
       THEN /\ pc' = "alloc"
            /\ UNCHANGED loop_exit
       ELSE /\ pc' = "drain"
            /\ loop_exit' = "limit"
  /\ UNCHANGED <<cfg, input, output, recout, output_stream, enc, retval,
                 frames_started, frames_done, img_in, img_out,
                 in_left, enc_depth, enc_pending, stalls, closes, log,
                 failure, avail0, report>>

\* the counter left alone when an iteration starts
StartFrame_forgotten(n) == n

\* line 183: frames_started += 1.  The counters are uint32_t; the inputs
\* modelled here are far shorter than 2^32 frames, so they never wrap.
StartFrame(n) == n + 1

\* lines 183-190
AllocFrame ==
  /\ pc = "alloc"
  /\ frames_started' = StartFrame(frames_started)
  /\ \E ok \in BOOLEAN :
       IF ok
         THEN /\ img_in' = "img"
              /\ log' = Append(log, Ev("image_alloc", "img_in"))
              /\ pc' = "read"
              /\ UNCHANGED <<failure, loop_exit>>
         ELSE /\ UNCHANGED <<img_in, log>>
              /\ loop_exit' = "alloc"
              /\ Fatal("image_alloc")
  /\ UNCHANGED <<cfg, input, output, recout, output_stream, enc, retval,
                 frames_done, img_out, in_left, enc_depth, enc_pending,
                 stalls, closes, avail0, report>>

\* a failed read treated as fatal
OnReadFailure_fatal == "exit_failure"

\* line 200: break leaves the submission loop for the flush phase
OnReadFailure == "drain"

\* a failed read that leaves the loop without image_free(img_in)
ReadFrame_leak ==
  /\ pc = "read"
  /\ IF in_left > 0
       THEN /\ in_left' = in_left - 1
            /\ log' = Append(log, Ev("read_one_frame", "ok"))
            /\ pc' = "encode"
            /\ UNCHANGED loop_exit
       ELSE /\ \E feof \in BOOLEAN :
                 log' = Append(log, Ev("read_one_frame", IF feof THEN "eof" ELSE "short"))
            /\ loop_exit' = "read"
            /\ pc' = OnReadFailure
            /\ UNCHANGED in_left
  /\ UNCHANGED <<cfg, input, output, recout, output_stream, enc, retval,
                 frames_started, frames_done, img_in, img_out, enc_depth,
                 enc_pending, stalls, closes, failure, avail0, report>>

\* lines 193-201: read_one_frame succeeds while a whole frame is left; a
\* failed read is a clean end of stream (feof) or a short frame
ReadFrame ==
  /\ pc = "read"
  /\ IF in_left > 0
       THEN /\ in_left' = in_left - 1
            /\ log' = Append(log, Ev("read_one_frame", "ok"))
            /\ pc' = "encode"
            /\ UNCHANGED <<img_in, loop_exit>>
       ELSE /\ \E feof \in BOOLEAN :
                 log' = log \o <<Ev("read_one_frame", IF feof THEN "eof" ELSE "short"),
                                 Ev("image_free", "img_in")>>
            /\ img_in' = "NULL"
            /\ loop_exit' = "read"
            /\ pc' = OnReadFailure
            /\ UNCHANGED in_left
  /\ UNCHANGED <<cfg, input, output, recout, output_stream, enc, retval,
                 frames_started, frames_done, img_out, enc_depth, enc_pending,
                 stalls, closes, failure, avail0, report>>

\* a failed submission that only leaves the loop
OnEncodeFailure_break == "drain"

\* line 207: goto exit_failure
OnEncodeFailure == "exit_failure"

\* lines 203-208
Encode ==
  /\ pc = "encode"
  /\ \E r \in encoder_encode(enc_pending, enc_depth, TRUE, FALSE) :
       /\ enc_pending' = r.pending
       /\ img_out' = IF r.out THEN "img" ELSE "NULL"
       /\ IF r.ret # 1
            THEN /\ log' = log \o <<Ev("encoder_encode", "failed"),
                                    Ev("image_free", "img_in")>>
                 /\ img_in' = "NULL"
                 /\ loop_exit' = "encode"
                 /\ pc' = OnEncodeFailure
                 /\ failure' = "encode"
            ELSE /\ log' = Append(log, Ev("encoder_encode", "frame"))
                 /\ pc' = "stats"
                 /\ UNCHANGED <<img_in, loop_exit, failure>>
  /\ UNCHANGED <<cfg, input, output, recout, output_stream, enc, retval,
                 frames_started, frames_done, in_left, enc_depth,
                 stalls, closes, avail0, report>>

\* lines 210-224
Stats ==
  /\ pc = "stats"
  /\ IF img_out # "NULL"
       THEN /\ frames_done' = frames_done + 1
            /\ log' = log \o <<Ev("encoder_compute_stats", "submit"),
                               Ev("image_free", "img_in"),
                               Ev("image_free", "img_out")>>
       ELSE /\ UNCHANGED frames_done
            /\ log' = Append(log, Ev("image_free", "img_in"))
  /\ img_in' = "NULL"
  /\ img_out' = "NULL"
  /\ pc' = "loop_test"
  /\ UNCHANGED <<cfg, input, output, recout, output_stream, enc, retval,
                 frames_started, in_left, enc_depth, enc_pending,
                 stalls, closes, failure, loop_exit, avail0, report>>

\* ------------------------------------------------------------ flush phase
\* the flush loop stopping at the first call that hands back nothing
DrainContinues_untilnull(r) == r.ret = 1 /\ r.out

\* line 230: the flush loop goes on while encoder_encode returns 1
DrainContinues(r) == r.ret = 1

\* the flush loop placed inside the submission loop
AfterDrain_backtoloop == "loop_test"

\* lines 246-248: the flush loop falls through to the end timestamps
AfterDrain == "end_time"

\* lines 229-246: one evaluation of the while condition and, when it is
\* true, the loop body
Drain ==
  /\ pc = "drain"
  /\ \E r \in encoder_encode(enc_pending, enc_depth, FALSE, stalls < MaxStall) :
       /\ enc_pending' = r.pending
       /\ IF DrainContinues(r)
            THEN /\ pc' = "drain"
                 /\ IF r.out
                      THEN /\ frames_done' = frames_done + 1
                           /\ log' = log \o <<Ev("encoder_encode", "drain"),
                                              Ev("encoder_compute_stats", "drain"),
                                              Ev("image_free", "img_out")>>
                           /\ UNCHANGED stalls
                      ELSE /\ stalls' = stalls + 1
                           /\ log' = Append(log, Ev("encoder_encode", "drain"))
                           /\ UNCHANGED frames_done
            ELSE /\ pc' = AfterDrain
                 /\ log' = Append(log, Ev("encoder_encode", "drained"))
                 /\ UNCHANGED <<frames_done, stalls>>
  /\ img_out' = "NULL"
  /\ UNCHANGED <<cfg, input, output, recout, output_stream, enc, retval,
                 frames_started, img_in, in_left, enc_depth,
                 closes, failure, loop_exit, avail0, report>>

\* lines 248-249
EndTime ==
  /\ pc = "end_time"
  /\ log' = Append(log, Ev("get_time", "end"))
  /\ pc' = "flush"
  /\ UNCHANGED <<cfg, input, output, recout, output_stream, enc, retval,
                 frames_started, frames_done, img_in, img_out,
                 in_left, enc_depth, enc_pending, stalls, closes,
                 failure, loop_exit, avail0, report>>

\* the barrier left out
Flush_skipped ==
  /\ pc = "flush"
  /\ pc' = "report"
  /\ UNCHANGED <<cfg, input, output, recout, output_stream, enc, retval,
                 frames_started, frames_done, img_in, img_out,
                 in_left, enc_depth, enc_pending, stalls, closes, log,
                 failure, loop_exit, avail0, report>>

\* line 251
Flush ==
  /\ pc = "flush"
  /\ log' = Append(log, Ev("threadqueue_flush", "enc"))
  /\ pc' = "report"
  /\ UNCHANGED <<cfg, input, output, recout, output_stream, enc, retval,
                 frames_started, frames_done, img_in, img_out,
                 in_left, enc_depth, enc_pending, stalls, closes,
                 failure, loop_exit, avail0, report>>

\* lines 255-270: the summary prints frames_done and psnr_sum[i] / frames_done
Report ==
  /\ pc = "report"
  /\ report' = [printed |-> TRUE, frames |-> frames_done, divisor |-> frames_done]
  /\ log' = Append(log, Ev("report", "stats"))
  /\ pc' = "done"
  /\ UNCHANGED <<cfg, input, output, recout, output_stream, enc, retval,
                 frames_started, frames_done, img_in, img_out,
                 in_left, enc_depth, enc_pending, stalls, closes,
                 failure, loop_exit, avail0>>

\* --------------------------------------------------------------- teardown
\* the failure label without the assignment to retval
ExitFailure_keepstatus ==
  /\ pc = "exit_failure"
  /\ pc' = "done"
  /\ UNCHANGED <<cfg, input, output, recout, output_stream, enc, retval,
                 frames_started, frames_done, img_in, img_out,
                 in_left, enc_depth, enc_pending, stalls, closes, log,
                 failure, loop_exit, avail0, report>>

\* lines 272-273
ExitFailure ==
  /\ pc = "exit_failure"
  /\ retval' = EXIT_FAILURE
  /\ pc' = "done"
  /\ UNCHANGED <<cfg, input, output, recout, output_stream, enc,
                 frames_started, frames_done, img_in, img_out,
                 in_left, enc_depth, enc_pending, stalls, closes, log,
                 failure, loop_exit, avail0, report>>

\* line 277
CloseEncoder ==
  /\ pc = "done"
  /\ log' = IF enc # "NULL" THEN Append(log, Ev("encoder_close", "enc")) ELSE log
  /\ pc' = "finalize"
  /\ UNCHANGED <<cfg, input, output, recout, output_stream, enc, retval,
                 frames_started, frames_done, img_in, img_out,
                 in_left, enc_depth, enc_pending, stalls, closes,
                 failure, loop_exit, avail0, report>>

\* line 278: bitstream_finalize(&output_stream) is called on every path.
\* After a goto that jumped over line 143-148 (or a failed bitstream_init)
\* it reads an object that was never initialized: the call either comes
\* back or faults, and a fault ends the process before the rest of teardown.
Finalize ==
  /\ pc = "finalize"
  /\ log' = Append(log, Ev("bitstream_finalize", output_stream))
  /\ IF output_stream = "initialized"
       THEN pc' = "destroy"
       ELSE \E fault \in BOOLEAN :
              pc' = IF fault THEN "aborted" ELSE "destroy"
  /\ UNCHANGED <<cfg, input, output, recout, output_stream, enc, retval,
                 frames_started, frames_done, img_in, img_out,
                 in_left, enc_depth, enc_pending, stalls, closes,
                 failure, loop_exit, avail0, report>>

\* line 279
DestroyConfig ==
  /\ pc = "destroy"
  /\ log' = IF cfg.ptr # "NULL" THEN Append(log, Ev("config_destroy", "cfg")) ELSE log
  /\ pc' = "close_input"
  /\ UNCHANGED <<cfg, input, output, recout, output_stream, enc, retval,
                 frames_started, frames_done, img_in, img_out,
                 in_left, enc_depth, enc_pending, stalls, closes,
                 failure, loop_exit, avail0, report>>

\* line 282
CloseInput ==
  /\ pc = "close_input"
  /\ closes' = fclose(input)
  /\ log' = IF input # "NULL" THEN Append(log, Ev("fclose", "input")) ELSE log
  /\ pc' = "close_output"
  /\ UNCHANGED <<cfg, input, output, recout, output_stream, enc, retval,
                 frames_started, frames_done, img_in, img_out,
                 in_left, enc_depth, enc_pending, stalls,
                 failure, loop_exit, avail0, report>>

\* line 283
CloseOutput ==
  /\ pc = "close_output"
  /\ closes' = fclose(output)
  /\ log' = IF output # "NULL" THEN Append(log, Ev("fclose", "output")) ELSE log
  /\ pc' = "close_recout"
  /\ UNCHANGED <<cfg, input, output, recout, output_stream, enc, retval,
                 frames_started, frames_done, img_in, img_out,
                 in_left, enc_depth, enc_pending, stalls,
                 failure, loop_exit, avail0, report>>

\* line 284
CloseRecout ==
  /\ pc = "close_recout"
  /\ closes' = fclose(recout)
  /\ log' = IF recout # "NULL" THEN Append(log, Ev("fclose", "recout")) ELSE log
  /\ pc' = "return"
  /\ UNCHANGED <<cfg, input, output, recout, output_stream, enc, retval,
                 frames_started, frames_done, img_in, img_out,
                 in_left, enc_depth, enc_pending, stalls,
                 failure, loop_exit, avail0, report>>

\* line 288: return retval
Return ==
  /\ pc = "return"
  /\ pc' = "exited"
  /\ UNCHANGED <<cfg, input, output, recout, output_stream, enc, retval,
                 frames_started, frames_done, img_in, img_out,
                 in_left, enc_depth, enc_pending, stalls, closes, log,
                 failure, loop_exit, avail0, report>>

Next ==
  \/ Configure \/ OpenInput \/ OpenOutput \/ OpenDebug \/ BitstreamInit
  \/ EncoderOpen \/ Seek \/ StartTime \/ LoopTest \/ AllocFrame \/ ReadFrame
  \/ Encode \/ Stats \/ Drain \/ EndTime \/ Flush \/ Report \/ ExitFailure
  \/ CloseEncoder \/ Finalize \/ DestroyConfig \/ CloseInput \/ CloseOutput
  \/ CloseRecout \/ Return

Spec == Init /\ [][Next]_vars

\* main() is one sequential thread that keeps running until it returns or
\* faults: whenever a statement can be executed, one eventually is
FairSpec == Spec /\ WF_vars(Next)

\* the process has ended: main() returned, or it was killed by a fault
Terminated == pc \in {"exited", "aborted"}

\* the process ended and its parent sees status 0
ExitedZero == pc = "exited" /\ retval = EXIT_SUCCESS

\* the process ended and its parent sees a nonzero status
ExitedNonzero == pc = "aborted" \/ (pc = "exited" /\ retval # EXIT_SUCCESS)

TypeOK ==
  /\ pc \in {"config", "open_input", "open_output", "open_debug",
             "bitstream_init", "encoder_open", "seek", "start_time",
             "loop_test", "alloc", "read", "encode", "stats", "drain",
             "end_time", "flush", "report", "exit_failure", "done",
             "finalize", "destroy", "close_input", "close_output",
             "close_recout", "return", "exited", "aborted"}
  /\ input \in {"NULL", "stdin", "in_file"}
  /\ output \in {"NULL", "stdout", "out_file"}
  /\ recout \in {"NULL", "stdout", "rec_file"}
  /\ retval \in {EXIT_SUCCESS, EXIT_FAILURE}
  /\ frames_started \in Nat /\ frames_done \in Nat
  /\ enc_pending \in 0..enc_depth

\* ===================================================================
\* Properties
\* ===================================================================
Resources == {"cfg", "input", "output", "recout", "enc"}

\* successful acquisitions of resource r so far
Acquired(r) ==
  CASE r = "cfg"    -> Count("config_alloc", "cfg")
    [] r = "enc"    -> Count("encoder_open", "enc")
    [] OTHER        -> Count("open", r)

\* releases of resource r so far (config_destroy / fclose / encoder_close)
Released(r) ==
  CASE r = "cfg"    -> Count("config_destroy", "cfg")
    [] r = "enc"    -> Count("encoder_close", "enc")
    [] OTHER        -> Count("fclose", r)

\* calls that hand a frame to the encoder, accepted or refused
Submissions == Count("encoder_encode", "frame") + Count("encoder_encode", "failed")

\* read attempts
Reads == Count("read_one_frame", "ok") + Count("read_one_frame", "eof")
         + Count("read_one_frame", "short")

\* positions of the drain calls (encoder_encode with a null frame)
DrainCalls == At("encoder_encode", "drain") \cup At("encoder_encode", "drained")

\* the drain loop has stopped
Drained == Count("encoder_encode", "drained") > 0

\* the calls teardown makes
TeardownOps == {"encoder_close", "bitstream_finalize", "config_destroy", "fclose"}

\* C1: in every run, whichever step fails or if none fails, each of the
\* configuration object, input stream, output stream, reconstruction stream
\* and encoder handle is never released more often than it was acquired,
\* and when the process has ended it has been released exactly as often as
\* it was acquired (once if acquired, not at all if not).
C1_ReleasedExactlyOnce ==
  /\ \A r \in Resources : Acquired(r) <= 1 /\ Released(r) <= Acquired(r)
  /\ Terminated => \A r \in Resources : Released(r) = Acquired(r)

\* C2: the output-stream wrapper is finalized only when bitstream_init was
\* reached and succeeded; on every other run no bitstream_finalize call is
\* made.
C2_FinalizeOnlyInitialized ==
  \A i \in DOMAIN log :
    log[i].op = "bitstream_finalize" =>
      /\ log[i].arg = "initialized"
      /\ Count("bitstream_init", "output_stream") = 1

\* C3: once the flush phase has ended, frames_done equals the number of
\* frames read successfully and the number of frames the encoder accepted;
\* when the submission loop ended on a failed or end-of-stream read,
\* frames_started is one more than that, so frames_done differs from it.
C3_DoneEqualsSubmitted ==
  Drained =>
    /\ frames_done = Count("read_one_frame", "ok")
    /\ frames_done = Count("encoder_encode", "frame")
    /\ loop_exit = "read" => (frames_done = frames_started - 1 /\ frames_done # frames_started)

C3_Witness ==
  /\ Drained
  /\ loop_exit = "read"
  /\ frames_done >= 2
  /\ Count("encoder_compute_stats", "submit") >= 1
  /\ Count("encoder_compute_stats", "drain") >= 1

\* C4: with frame-count limit 0 and an input already at end of stream, the
\* driver submits no frame, gets no drain output, reports zero completed
\* frames, and the reported means are not computed by dividing by a
\* completed-frame count of zero.
C4_EmptyRunGuarded ==
  (report.printed /\ cfg.frames = 0 /\ avail0 = 0) =>
    /\ Submissions = 0
    /\ Count("encoder_compute_stats", "drain") = 0
    /\ report.frames = 0
    /\ report.divisor # 0

\* C5: the statistics report, and encoder_close after a completed drain
\* loop, are each preceded by a threadqueue_flush that itself comes after
\* every drain call.
C5_BarrierBeforeReportAndClose ==
  LET flushes == At("threadqueue_flush", "enc")
      Barrier(i) == \E j \in flushes : j < i /\ \A k \in DrainCalls : k < j
  IN /\ \A i \in At("report", "stats") : Barrier(i)
     /\ Drained => \A i \in At("encoder_close", "enc") : Barrier(i)

C5_Witness ==
  /\ pc = "exited"
  /\ report.printed
  /\ Count("encoder_close", "enc") = 1
  /\ Count("encoder_encode", "drain") >= 2

\* C6: the process ends with status 0 exactly when no fatal failure
\* occurred; after a fatal failure the status is nonzero, and retval is
\* already EXIT_FAILURE all through teardown.
C6_ExitStatus ==
  /\ Terminated => (ExitedZero <=> failure = "none")
  /\ Terminated /\ failure # "none" => ExitedNonzero
  /\ (failure # "none" /\ pc \in {"done", "finalize", "destroy", "close_input",
                                 "close_output", "close_recout", "return"})
       => retval = EXIT_FAILURE

C6_Witness ==
  /\ pc = "exited"
  /\ failure = "seek"
  /\ retval = EXIT_FAILURE

\* C7: a failed read (short frame or clean end of stream) is followed by
\* the release of the frame and then by a drain call, never by a fatal
\* exit; the run then drains, executes the barrier, prints the report and
\* ends with status 0.
C7_ReadFailureFlushes ==
  /\ \A i \in At("read_one_frame", "eof") \cup At("read_one_frame", "short") :
       Len(log) >= i + 2 => log[i + 2].op = "encoder_encode" /\ (i + 2) \in DrainCalls
  /\ loop_exit = "read" => failure = "none" /\ retval = EXIT_SUCCESS
  /\ (Terminated /\ loop_exit = "read") =>
       /\ Drained
       /\ Count("threadqueue_flush", "enc") = 1
       /\ report.printed
       /\ ExitedZero

C7_Witness ==
  /\ pc = "exited"
  /\ Count("read_one_frame", "short") = 1
  /\ Count("read_one_frame", "ok") >= 1
  /\ retval = EXIT_SUCCESS

\* C8: after a submission call reports failure the just-submitted frame is
\* released at once, every later call is a teardown call (no read, no
\* submission, no drain, no report), and the process ends with a nonzero
\* status.
C8_SubmissionFailureAborts ==
  /\ \A i \in At("encoder_encode", "failed") :
       /\ log[i + 1] = Ev("image_free", "img_in")
       /\ \A j \in DOMAIN log : j > i + 1 => log[j].op \in TeardownOps
  /\ failure = "encode" => img_in = "NULL" /\ ~report.printed
  /\ (Terminated /\ failure = "encode") => ExitedNonzero

C8_Witness ==
  /\ pc = "exited"
  /\ failure = "encode"
  /\ Count("encoder_encode", "frame") >= 1
  /\ enc_pending >= 1
  /\ retval = EXIT_FAILURE

\* C9: with limit L > 0 and N readable frames at the start of the loop the
\* driver never reads more than L frames nor submits more than min(L, N);
\* when the loop ends without a fatal failure it has made exactly
\* min(L, N) submissions (N when L = 0); when it ends on the limit it has
\* made exactly L reads; and the completed count after the drain is that
\* number of submissions.
C9_Target == IF cfg.frames > 0 THEN Min(cfg.frames, avail0) ELSE avail0

C9_LimitBoundsSubmissions ==
  /\ Submissions <= C9_Target
  /\ cfg.frames > 0 => Reads <= cfg.frames /\ frames_started <= cfg.frames
  /\ loop_exit \in {"limit", "read"} => Submissions = C9_Target
  /\ loop_exit = "limit" => (cfg.frames > 0 /\ Reads = cfg.frames /\ Submissions = cfg.frames)
  /\ Drained => frames_done = C9_Target

C9_Witness ==
  /\ Drained
  /\ cfg.frames = 1
  /\ avail0 = MaxInput
  /\ loop_exit = "limit"
  /\ Reads = 1
  /\ Submissions = 1
  /\ frames_done = 1

\* C10: at every point of the submission loop frames_done <= frames_started.
C10_DoneAtMostStarted ==
  pc \in {"loop_test", "alloc", "read", "encode", "stats"} =>
    frames_done <= frames_started

C10_Witness ==
  /\ pc = "loop_test"
  /\ frames_done = frames_started
  /\ frames_done >= 2

\* the acquisitions, in the order main() makes them
AcquireOps == {"config_alloc", "open", "bitstream_init", "encoder_open"}

\* the calls of the submission loop and of the flush phase
EncodingOps == {"image_alloc", "read_one_frame", "encoder_encode",
                "encoder_compute_stats", "image_free"}

\* C11: the end-of-encoding timestamps are taken after threadqueue_flush
\* has completed, and the start timestamps are taken after every
\* acquisition and the seek and before the first call of the submission
\* loop.
C11_TimestampsAroundEncoding ==
  /\ \A i \in At("get_time", "end") :
       \E j \in At("threadqueue_flush", "enc") : j < i
  /\ \A i \in At("get_time", "start") :
       /\ \A j \in DOMAIN log : j < i => log[j].op \in AcquireOps \cup {"yuv_io_seek"}
       /\ \A j \in DOMAIN log : j > i => log[j].op \notin AcquireOps \cup {"yuv_io_seek"}

\* position of a release call in the reverse of the acquisition order:
\* encoder handle, output-stream wrapper, debug stream, output stream,
\* input stream, configuration
ReleaseRank(e) ==
  CASE e.op = "encoder_close"                   -> 1
    [] e.op = "bitstream_finalize"              -> 2
    [] e.op = "fclose" /\ e.arg = "recout"      -> 3
    [] e.op = "fclose" /\ e.arg = "output"      -> 4
    [] e.op = "fclose" /\ e.arg = "input"       -> 5
    [] e.op = "config_destroy"                  -> 6
    [] OTHER                                    -> 0

\* C12: teardown releases what was acquired in the reverse of the
\* acquisition order, on success and on failure paths.
C12_ReverseOrderRelease ==
  \A i, j \in DOMAIN log :
    (i < j /\ log[i].op \in TeardownOps /\ log[j].op \in TeardownOps)
      => ReleaseRank(log[i]) < ReleaseRank(log[j])

\* the fatal failures of the acquisition phase
AcquireFailures == {"config", "input", "output", "debug", "bitstream_init",
                    "encoder_open"}

\* position of an acquisition in the order configuration, input stream,
\* output stream, debug stream, output-stream wrapper, encoder handle
AcquireRank(e) ==
  CASE e.op = "config_alloc"                  -> 1
    [] e.op = "open" /\ e.arg = "input"       -> 2
    [] e.op = "open" /\ e.arg = "output"      -> 3
    [] e.op = "open" /\ e.arg = "recout"      -> 4
    [] e.op = "bitstream_init"                -> 5
    [] e.op = "encoder_open"                  -> 6
    [] OTHER                                  -> 0

\* the acquisitions happen in the stated order, and after an acquisition
\* failure nothing more is acquired and no seek, read, submission or drain
\* is made
C13_OrderAndStop ==
  /\ \A i, j \in DOMAIN log :
       (i < j /\ log[i].op \in AcquireOps /\ log[j].op \in AcquireOps)
         => AcquireRank(log[i]) < AcquireRank(log[j])
  /\ failure \in AcquireFailures =>
       /\ \A i \in DOMAIN log : log[i].op \in AcquireOps \cup TeardownOps
       /\ Acquired("cfg") = 0 => failure = "config"
       /\ Acquired("input") = 0 => failure \in {"config", "input"}
       /\ Acquired("output") = 0 => failure \in {"config", "input", "output"}
       /\ Acquired("enc") = 0

\* C13: resources are acquired in the order configuration, input stream,
\* output stream, debug stream, output-stream wrapper, encoder handle; the
\* first acquisition failure stops the sequence (nothing later is acquired,
\* no seek, read, submission or drain is made), and when the process has
\* ended every stream opened before the failure has been closed and the
\* exit status is nonzero.
C13_AcquireInOrderAndCloseOnFailure ==
  /\ C13_OrderAndStop
  /\ (Terminated /\ failure \in AcquireFailures) =>
       /\ \A r \in {"input", "output", "recout"} : Released(r) = Acquired(r)
       /\ ExitedNonzero

\* input frames allocated and not yet released
InputFramesHeld == Count("image_alloc", "img_in") - Count("image_free", "img_in")

\* C14: every input frame the submission loop allocates is released
\* exactly once on every path out of its iteration (failed read, failed
\* submission, successful submission with or without output): a frame is
\* held only between its allocation and the end of its iteration, and
\* none is held when teardown runs.
C14_InputFrameReleasedOnce ==
  /\ InputFramesHeld \in {0, 1}
  /\ InputFramesHeld = 1 <=> pc \in {"read", "encode", "stats"}
  /\ InputFramesHeld = 1 <=> img_in # "NULL"

C14_Witness ==
  /\ pc = "exited"
  /\ Count("image_alloc", "img_in") >= 3
  /\ Count("image_free", "img_in") = Count("image_alloc", "img_in")
  /\ Count("read_one_frame", "eof") = 1
  /\ Count("encoder_compute_stats", "submit") >= 1

\* outputs the encoder has handed back through img_out: every frame it
\* accepted and no longer holds
OutputsHandedBack == Count("encoder_encode", "frame") - enc_pending

\* outputs folded into the statistics
OutputsFolded == Count("encoder_compute_stats", "submit")
                 + Count("encoder_compute_stats", "drain")

\* C15: every output the encoder hands back, in the submission loop or in
\* the drain loop and also by a call that reports failure, is folded into
\* the statistics exactly once (frames_done incremented by one) and then
\* released exactly once: apart from the one output of the current
\* iteration that line 210 is about to fold, outputs handed back, outputs
\* folded, frames_done and outputs released are the same number.
C15_OutputFoldedAndReleasedOnce ==
  LET inhand == IF pc = "stats" /\ img_out # "NULL" THEN 1 ELSE 0
  IN /\ OutputsFolded = frames_done
     /\ Count("image_free", "img_out") = OutputsFolded
     /\ OutputsHandedBack = OutputsFolded + inhand

\* the same for the outputs handed back by calls that report success
C15_SuccessfulOutputs ==
  img_out = "NULL" =>
    /\ OutputsFolded = frames_done
    /\ Count("image_free", "img_out") = OutputsFolded
    /\ OutputsHandedBack = OutputsFolded

\* C16 (safety): a drain call that succeeds, with or without output, is
\* followed by another drain call; the flush phase is left only by the call
\* on which the encoder reports that nothing is pending, and then nothing
\* is pending.
C16_DrainUntilReported ==
  /\ \A i \in At("encoder_encode", "drain") :
       \A j \in DOMAIN log :
         (j > i /\ \A k \in (i + 1)..(j - 1) : log[k].op # "encoder_encode")
           => log[j].op \in {"encoder_encode", "encoder_compute_stats", "image_free"}
  /\ pc = "drain" => ~Drained
  /\ pc \in {"end_time", "flush", "report"} => Drained
  /\ Drained => enc_pending = 0 /\ log[Len(log)].op # "encoder_compute_stats"
  /\ Drained => \A i \in At("encoder_encode", "drained") :
                  \A j \in DOMAIN log : j > i => log[j].op # "encoder_encode"

\* C16: the flush phase keeps issuing drain calls until the encoder reports
\* that no output is pending and stops only then, however many calls that
\* takes; and as the encoder eventually reports it, the flush phase, once
\* entered, ends.
C16_FlushDrainsAndTerminates ==
  /\ []C16_DrainUntilReported
  /\ (pc = "drain") ~> (pc = "end_time")

C16_Witness ==
  /\ pc = "end_time"
  /\ stalls >= 1
  /\ Count("encoder_encode", "drain") >= 3
  /\ Count("encoder_compute_stats", "drain") >= 2

\* C17: once the first drain call has been made no frame is allocated,
\* read or submitted any more, and once the drain loop has stopped no
\* encoder_encode call of any kind is made again.
C17_PhasesMonotone ==
  /\ \A i \in DrainCalls : \A j \in DOMAIN log :
       j > i => /\ log[j].op \notin {"image_alloc", "read_one_frame"}
                /\ log[j] \notin {Ev("encoder_encode", "frame"), Ev("encoder_encode", "failed")}
  /\ \A i \in At("encoder_encode", "drained") : \A j \in DOMAIN log :
       j > i => log[j].op \notin EncodingOps
  /\ Count("encoder_encode", "drained") <= 1
  /\ Drained => pc \notin {"start_time", "loop_test", "alloc", "read", "encode",
                           "stats", "drain"}

C17_Witness ==
  /\ pc = "exited"
  /\ Count("encoder_encode", "frame") >= 2
  /\ Count("encoder_encode", "drain") >= 1
  /\ Drained

\* C18: every underlying stream is closed at most once, also when the
\* output path and the debug path are both "-".
C18_StreamClosedAtMostOnce ==
  \A s \in Streams : closes[s] <= 1

\* C19: frames_started minus the number of frames the encoder accepted is
\* 0 or 1 throughout; it is 1 once the loop has ended on a failed read, a
\* failed allocation or a failed submission, and 0 once it has ended on the
\* frame-count limit; frames_started is the number of read attempts when
\* the loop ends on a read or on the limit.
C19_StartedCountsAttempts ==
  LET d == frames_started - Count("encoder_encode", "frame")
  IN /\ d \in {0, 1}
     /\ loop_exit \in {"read", "alloc", "encode"} => d = 1
     /\ loop_exit = "limit" => d = 0
     /\ loop_exit \in {"read", "limit"} => frames_started = Reads
     /\ pc \in {"drain", "exit_failure"} /\ frames_started > 0 => loop_exit # "none"

C19_Witness ==
  /\ pc = "drain"
  /\ loop_exit = "read"
  /\ frames_started = Count("encoder_encode", "frame") + 1
  /\ frames_started >= 3

\* C20: after a fatal failure that follows encoder_open (seek, frame
\* allocation or submission failure) no drain call is made and
\* threadqueue_flush is not executed, whatever the encoder still holds;
\* the encoder handle is closed by teardown all the same.
C20_FatalSkipsDrainAndBarrier ==
  failure \in {"seek", "image_alloc", "encode"} =>
    /\ DrainCalls = {}
    /\ Count("threadqueue_flush", "enc") = 0
    /\ ~report.printed
    /\ Acquired("enc") = 1
    /\ Terminated => Released("enc") = 1

C20_Witness ==
  /\ pc = "exited"
  /\ failure = "image_alloc"
  /\ enc_pending >= 1
  /\ Count("encoder_close", "enc") = 1

====
